---- MODULE Spec2Model ----
(***************************************************************************)
(* Model of the Notion -> GitHub synchronisation bridge (src/app.py).      *)
(*                                                                         *)
(* The state is the process (poll_loop's position, the locals of the       *)
(* record being processed, the in-memory project-field cache), the durable *)
(* idempotency table of sync.db, and the two remote systems as far as the  *)
(* program reads or writes them: the Notion pages' Status and "In Sync     *)
(* With Github" properties, and the issues and draft items on GitHub.      *)
(*                                                                         *)
(* One action is one awaited external call of the code together with the   *)
(* pure code that follows it up to the next call.  The process may be      *)
(* killed and restarted between any two actions, and a Notion user may     *)
(* change the Status of a page at any time.                                *)
(***************************************************************************)
EXTENDS Integers, Sequences, FiniteSets, TLC

\* ------------------------------------------------------------------ bounds
\* Total number of issues (or of draft items) GitHub accepts; beyond it every
\* creation call fails.
MaxItems == 2

\* Number of record_mapping calls the store specification makes.
MaxCalls == 3

\* Number of blocks of a page the converter specification builds.
MaxBlocks == 2

\* The pages of the Notion database, in the order its query returns them; two
\* pages give a cycle a later record.
PageOrder == <<"page-1", "page-2">>
Pages == {PageOrder[i] : i \in DOMAIN PageOrder}

\* -------------------------------------------------------------- constants
\* Python's None for an optional string.
None == "None"
\* get_page_fields' title when the page has no title.
NoTitle == "(no title)"
\* create_github_issue's issue number under DRY_RUN.
DryRunIssueNumber == -1

VARIABLES
    config,           \* the environment read at import time: DRY_RUN, GITHUB_PROJECT_ID, ...
    notion,           \* page id -> [status, in_sync]: the Notion database
    mapping,          \* the rows of sync.db's mapping table
    dbReady,          \* the mapping table exists
    issues,           \* GitHub issues in creation order: issues[n] = page of issue #n
    drafts,           \* draft items of the project in creation order
    cache,            \* _PROJECT_FIELDS_CACHE
    pc,               \* where the process is
    results,          \* poll_loop: the ids of the cycle's query
    idx,              \* poll_loop: how many of them were dispatched
    page_id,          \* process_validated_page: its argument
    data,             \* process_validated_page: get_page_fields' result
    page_content,     \* process_validated_page: get_page_content's result, kept until
                      \* the creation call, its only reader, has taken it
    issue,            \* process_validated_page: <<>> (None) or <<the issue>>
    project_item_id,  \* process_validated_page: None or the project item
    validation,       \* process_validated_page: validate_page_data's result
    blocks,           \* get_page_content: what the block listing gave, kept
                      \* as long as page_content
    customer_types,   \* process_validated_page: data["customer_types"], taken
                      \* where line 541 reads it and kept as long as labels
    labels,           \* process_validated_page: _labels_for_issue's result, kept
                      \* until the creation call has taken it
    field_ids,        \* process_validated_page: <<>> or the <<field id, option
                      \* id>> get_project_field_and_option_ids returned last
    cycle,            \* poll_loop: how the cycle's query ended, or that the
                      \* sleep after it raised
    hadRow,           \* the page had a mapping row when the run started
    log,              \* the calls of the current run, in order, with their outcome
    exit              \* how the last run left process_validated_page

vars == <<config, notion, mapping, dbReady, issues, drafts, cache,
          pc, results, idx, page_id, data, page_content, issue, project_item_id,
          validation, blocks, customer_types, labels, field_ids, cycle,
          hadRow, log, exit>>

world == <<notion, mapping, issues, drafts>>
locals == <<page_id, data, page_content, issue, project_item_id, hadRow, log,
            validation, blocks, customer_types, labels, field_ids>>

\* ------------------------------------------------------------ environment
DRY_RUN == config.DRY_RUN
GITHUB_PROJECT_ID == config.GITHUB_PROJECT_ID
GITHUB_PROJECT_CREATE_DRAFT == config.GITHUB_PROJECT_CREATE_DRAFT
\* GITHUB_PROJECT_STATUS_FIELD_ID and GITHUB_PROJECT_STATUS_BACKLOG_OPTION_ID
\* are both set.
GITHUB_PROJECT_STATUS_IDS == config.GITHUB_PROJECT_STATUS_IDS

Configs == [DRY_RUN : BOOLEAN, GITHUB_PROJECT_ID : BOOLEAN,
            GITHUB_PROJECT_CREATE_DRAFT : BOOLEAN, GITHUB_PROJECT_STATUS_IDS : BOOLEAN]

\* A field node of the schema-discovery query.
Node(typename, id, name, options) ==
    [typename |-> typename, id |-> id, name |-> name, options |-> options]
Option(id, name) == [id |-> id, name |-> name]
SingleSelect == "ProjectV2SingleSelectField"

\* The field nodes a schema-discovery query may answer with: none; a schema
\* without a Size field whose Priority field lacks the option "Medio"; and a
\* schema with both fields and options.  ("Medio", "Extremo" stand for the
\* accented labels of PRIORITY_MAP_NOTION_TO_GH.)
RemoteSchemas ==
    { {},
      { Node("ProjectV2Field", "F_title", "Title", {}),
        Node(SingleSelect, "F_priority", "Priority", {Option("O_extremo", "Extremo")}) },
      { Node(SingleSelect, "F_priority", "Priority",
             {Option("O_extremo", "Extremo"), Option("O_medio", "Medio")}),
        Node(SingleSelect, "F_size", "Size", {Option("O_m", "M")}) } }

Titles == {"", NoTitle, "Fix login bug"}
Priorities == {None, "Medium"}
Sizes == {None, "M"}

NoData == [title |-> "", status |-> None, priority |-> None, size |-> None]
EmptyCache == [present |-> FALSE, field_map |-> {}]

\* validate_page_data was not called yet.
NoValidation == [is_valid |-> FALSE, message |-> None, names |-> <<>>]

\* get_page_content was not called yet.
NoBlocks == [outcome |-> "none", results |-> <<>>]

\* What notion.blocks.children.list gives get_page_content: a failure, no
\* block, a block of white space, a heading.
Fetched ==
    {[outcome |-> "fail", results |-> <<>>]}
    \cup {[outcome |-> "ok", results |-> bs] :
            bs \in {<<>>,
                    <<[type |-> "paragraph", text |-> <<" ">>, checked |-> FALSE,
                       language |-> <<>>, icon |-> <<>>, url |-> <<>>,
                       caption |-> <<>>]>>,
                    <<[type |-> "heading_1", text |-> <<"a">>, checked |-> FALSE,
                       language |-> <<>>, icon |-> <<>>, url |-> <<>>,
                       caption |-> <<>>]>>}}

\* The names of a page's "Customer Type" options, in the order of the page.
CustomerTypes == {<<>>, <<<<"Shipper">>, <<"Carrier">>>>}

\* One entry of the run's log.
Call(op, res) == [op |-> op, res |-> res]

\* ---------------------------------------------------------- pure functions
\* already_synced that never finds a row.
already_synced_never(pid) == FALSE

already_synced(pid) == \E r \in mapping : r.notion_page_id = pid

\* record_mapping as a plain INSERT that keeps the row already there.
record_mapping_insert(pid, n) ==
    mapping \cup {[notion_page_id |-> pid, github_issue_number |-> n]}

\* record_mapping without its commit: the row is lost.
record_mapping_uncommitted(pid, n) == mapping

record_mapping(pid, n) ==
    {r \in mapping : r.notion_page_id # pid}
        \cup {[notion_page_id |-> pid, github_issue_number |-> n]}

\* validate_page_data that takes the "(no title)" sentinel for a title.
validate_page_data_sentinel_ok(d) ==
    LET missing_fields ==
            (IF d.title = "" THEN <<"title">> ELSE <<>>)
            \o (IF d.status = None THEN <<"status">> ELSE <<>>)
    IN  IF missing_fields # <<>>
        THEN [is_valid |-> FALSE, message |-> "Missing required fields: ", names |-> missing_fields]
        ELSE [is_valid |-> TRUE, message |-> "OK", names |-> <<>>]

\* validate_page_data: (is_valid, message); the message is its prefix and the
\* field names it joins.
validate_page_data(d) ==
    LET missing_fields ==
            (IF d.title = "" \/ d.title = NoTitle THEN <<"title">> ELSE <<>>)
            \o (IF d.status = None THEN <<"status">> ELSE <<>>)
        warnings ==
            (IF d.priority = None THEN <<"priority">> ELSE <<>>)
            \o (IF d.size = None THEN <<"size">> ELSE <<>>)
    IN  IF missing_fields # <<>>
        THEN [is_valid |-> FALSE, message |-> "Missing required fields: ", names |-> missing_fields]
        ELSE IF warnings # <<>>
        THEN [is_valid |-> TRUE, message |-> "Warning: Missing optional fields: ", names |-> warnings]
        ELSE [is_valid |-> TRUE, message |-> "OK", names |-> <<>>]

\* ------------------------------------------------------------------ strings
\* A string is the sequence of its characters; a literal of the code that holds
\* a character other than white space stands for itself as one element.
IsSpace(ch) == ch \in {" ", "\n"}

RECURSIVE lstrip(_)
lstrip(s) == IF s # <<>> /\ IsSpace(Head(s)) THEN lstrip(Tail(s)) ELSE s

RECURSIVE rstrip(_)
rstrip(s) ==
    IF s # <<>> /\ IsSpace(s[Len(s)]) THEN rstrip(SubSeq(s, 1, Len(s) - 1)) ELSE s

\* str.strip()
strip(s) == rstrip(lstrip(s))

\* sep.join(parts)
RECURSIVE join(_, _)
join(sep, parts) ==
    IF parts = <<>> THEN <<>>
    ELSE IF Len(parts) = 1 THEN parts[1]
    ELSE parts[1] \o sep \o join(sep, Tail(parts))

\* ------------------------------------------------ _convert_notion_to_markdown
\* A block of a page: its type, and of its content the joined plain text of
\* rich_text, checked, language, the icon's emoji (<<>>: none), the url of file
\* or external (<<>>: none) and the joined plain text of caption.  An emoji of
\* the code's literals is written by its name between colons.
Block(type, text, checked, language, icon, url, caption) ==
    [type |-> type, text |-> text, checked |-> checked, language |-> language,
     icon |-> icon, url |-> url, caption |-> caption]

\* The three backquotes of a code fence, as one element.
Fence == "[code fence]"

\* "if text:" in the place of "if text.strip():".
HasText_nonempty(text) == text # <<>>

\* if text.strip():
HasText(text) == strip(text) # <<>>

\* The lines one block appends to markdown_parts.
convert_block(b) ==
    CASE b.type = "paragraph" ->
            IF HasText(b.text) THEN <<b.text, <<>>>> ELSE <<>>
      [] b.type = "heading_1" ->
            IF HasText(b.text) THEN <<<<"# ">> \o b.text, <<>>>> ELSE <<>>
      [] b.type = "heading_2" ->
            IF HasText(b.text) THEN <<<<"## ">> \o b.text, <<>>>> ELSE <<>>
      [] b.type = "heading_3" ->
            IF HasText(b.text) THEN <<<<"### ">> \o b.text, <<>>>> ELSE <<>>
      [] b.type = "bulleted_list_item" ->
            IF HasText(b.text) THEN <<<<"- ">> \o b.text>> ELSE <<>>
      [] b.type = "numbered_list_item" ->
            IF HasText(b.text) THEN <<<<"1. ">> \o b.text>> ELSE <<>>
      [] b.type = "to_do" ->
            LET checkbox == IF b.checked THEN "- [x]" ELSE "- [ ]"
            IN  IF HasText(b.text) THEN <<<<checkbox, " ">> \o b.text>> ELSE <<>>
      [] b.type = "code" ->
            IF HasText(b.text)
            THEN <<<<Fence>> \o b.language, b.text, <<Fence>>, <<>>>>
            ELSE <<>>
      [] b.type = "quote" ->
            IF HasText(b.text) THEN <<<<"> ">> \o b.text, <<>>>> ELSE <<>>
      [] b.type = "callout" ->
            LET icon == IF b.icon # <<>> THEN b.icon ELSE <<":bulb:">>
            IN  IF HasText(b.text)
                THEN <<<<"> ">> \o icon \o <<" ", "**">> \o b.text \o <<"**">>, <<>>>>
                ELSE <<>>
      [] b.type = "divider" -> <<<<"---">>, <<>>>>
      [] b.type = "image" ->
            <<IF b.url # <<>>
              THEN IF b.caption # <<>>
                   THEN <<"![">> \o b.caption \o <<"](">> \o b.url \o <<")">>
                   ELSE <<"![Image](">> \o b.url \o <<")">>
              ELSE IF b.caption # <<>>
                   THEN <<"![Image: ">> \o b.caption \o <<"]">>
                   ELSE <<"![Image]">>,
              <<>>>>
      [] b.type = "file" ->
            <<IF b.url # <<>>
              THEN IF b.caption # <<>>
                   THEN <<"[:paperclip: ">> \o b.caption \o <<"](">> \o b.url \o <<")">>
                   ELSE <<"[:paperclip: File](">> \o b.url \o <<")">>
              ELSE IF b.caption # <<>>
                   THEN <<":paperclip: ">> \o b.caption
                   ELSE <<":paperclip: File">>,
              <<>>>>
      [] b.type = "video" ->
            <<IF b.url # <<>>
              THEN IF b.caption # <<>>
                   THEN <<"[:movie_camera: ">> \o b.caption \o <<"](">> \o b.url \o <<")">>
                   ELSE <<"[:movie_camera: Video](">> \o b.url \o <<")">>
              ELSE IF b.caption # <<>>
                   THEN <<":movie_camera: ">> \o b.caption
                   ELSE <<":movie_camera: Video">>,
              <<>>>>
      [] OTHER -> <<>>

\* markdown_parts after the loop over the blocks.
RECURSIVE markdown_parts(_)
markdown_parts(bs) ==
    IF bs = <<>> THEN <<>>
    ELSE convert_block(Head(bs)) \o markdown_parts(Tail(bs))

_convert_notion_to_markdown(bs) == strip(join(<<"\n">>, markdown_parts(bs)))

\* get_page_content's placeholders.
NoContentFound == <<"_(No content found)_">>
NoReadableContentFound == <<"_(No readable content found)_">>
FailedToFetch == <<"_(Failed to fetch page content)_">>

\* get_page_content without its placeholders.
get_page_content_no_placeholder(fetched) ==
    IF fetched.outcome = "fail" THEN <<>>
    ELSE _convert_notion_to_markdown(fetched.results)

\* get_page_content, from what notion.blocks.children.list gave.
get_page_content(fetched) ==
    IF fetched.outcome = "fail" THEN FailedToFetch
    ELSE IF fetched.results = <<>> THEN NoContentFound
    ELSE LET markdown_content == _convert_notion_to_markdown(fetched.results)
         IN  IF strip(markdown_content) = <<>> THEN NoReadableContentFound
             ELSE markdown_content

\* _labels_for_issue that leaves the size out.
labels_for_issue_no_size(cts, priority, size) ==
    cts \o (IF priority # None THEN <<<<"Priority:", priority>>>> ELSE <<>>)

\* _labels_for_issue: the customer types, then Priority:<priority>, then
\* Size:<size>; a label is a string, the sequence of its parts.
_labels_for_issue(cts, priority, size) ==
    cts
    \o (IF priority # None THEN <<<<"Priority:", priority>>>> ELSE <<>>)
    \o (IF size # None THEN <<<<"Size:", size>>>> ELSE <<>>)

\* The poll query's filter: Status equals Validated and the sync flag is false.
MatchesFilter(p) == notion[p].status = "Validated" /\ ~notion[p].in_sync

\* The pages among the first n matching the filter, in the order of the database.
RECURSIVE QueryResults(_)
QueryResults(n) ==
    IF n = 0 THEN <<>>
    ELSE QueryResults(n - 1)
         \o (IF MatchesFilter(PageOrder[n]) THEN <<PageOrder[n]>> ELSE <<>>)

\* ------------------------------------------------------------------- Init
Init ==
    /\ config \in Configs
    /\ notion \in [Pages -> [status : {"Draft", "Validated"}, in_sync : {FALSE}]]
    /\ mapping = {}
    /\ dbReady = FALSE
    /\ issues = <<>>
    /\ drafts = <<>>
    /\ cache = EmptyCache
    /\ pc = "startup"
    /\ results = <<>>
    /\ idx = 0
    /\ page_id = None
    /\ data = NoData
    /\ page_content = <<>>
    /\ issue = <<>>
    /\ project_item_id = None
    /\ hadRow = FALSE
    /\ log = <<>>
    /\ exit = "none"
    /\ validation = NoValidation
    /\ blocks = NoBlocks
    /\ customer_types = <<>>
    /\ labels = <<>>
    /\ field_ids = <<>>
    /\ cycle = "none"

\* The locals of process_validated_page before a run.
ResetLocals ==
    /\ data' = NoData
    /\ page_content' = <<>>
    /\ issue' = <<>>
    /\ project_item_id' = None
    /\ log' = <<>>
    /\ validation' = NoValidation
    /\ blocks' = NoBlocks
    /\ customer_types' = <<>>
    /\ labels' = <<>>
    /\ field_ids' = <<>>

\* ------------------------------------------------------------ poll_loop
\* on_startup that creates the poll loop task without awaiting init_db.
Startup_task_first ==
    /\ pc = "startup"
    /\ dbReady' = dbReady
    /\ pc' = "query"
    /\ UNCHANGED <<config, world, cache, results, idx, locals, exit, cycle>>

\* on_startup: init_db, then the poll loop task is created.
Startup ==
    /\ pc = "startup"
    /\ dbReady' = TRUE
    /\ pc' = "query"
    /\ UNCHANGED <<config, world, cache, results, idx, locals, exit, cycle>>

\* notion.databases.query succeeds.
QueryOk ==
    /\ pc = "query"
    /\ results' = QueryResults(Len(PageOrder))
    /\ idx' = 0
    /\ cycle' = "ok"
    /\ pc' = "dispatch"
    /\ UNCHANGED <<config, world, dbReady, cache, locals, exit>>

\* notion.databases.query raises with no handler in the cycle: the exception
\* leaves the while loop.
QueryFail_uncaught ==
    /\ pc = "query"
    /\ results' = <<>>
    /\ idx' = 0
    /\ cycle' = "failed"
    /\ pc' = "stopped"
    /\ UNCHANGED <<config, world, dbReady, cache, locals, exit>>

\* notion.databases.query raises: the cycle's handler logs it.
QueryFail ==
    /\ pc = "query"
    /\ results' = <<>>
    /\ idx' = 0
    /\ cycle' = "failed"
    /\ pc' = "sleep"
    /\ UNCHANGED <<config, world, dbReady, cache, locals, exit>>

\* A loop that takes the last id of the results first.
Dispatch_last_first ==
    /\ pc = "dispatch"
    /\ idx < Len(results)
    /\ idx' = Len(results)
    /\ page_id' = results[Len(results)]
    /\ hadRow' = (\E r \in mapping : r.notion_page_id = results[Len(results)])
    /\ ResetLocals
    /\ exit' = "none"
    /\ pc' = "fields"
    /\ UNCHANGED <<config, world, dbReady, cache, results, cycle>>

\* for r in results: process_validated_page(r["id"]) is called.
Dispatch ==
    /\ pc = "dispatch"
    /\ idx < Len(results)
    /\ idx' = idx + 1
    /\ page_id' = results[idx + 1]
    /\ hadRow' = (\E r \in mapping : r.notion_page_id = results[idx + 1])
    /\ ResetLocals
    /\ exit' = "none"
    /\ pc' = "fields"
    /\ UNCHANGED <<config, world, dbReady, cache, results, cycle>>

\* The for loop is exhausted.
CycleEnd ==
    /\ pc = "dispatch"
    /\ idx = Len(results)
    /\ ResetLocals
    /\ page_id' = None
    /\ hadRow' = FALSE
    /\ exit' = "none"
    /\ pc' = "sleep"
    /\ UNCHANGED <<config, world, dbReady, cache, results, idx, cycle>>

\* asyncio.sleep(POLL_INTERVAL) returns.
Sleep ==
    /\ pc = "sleep"
    /\ cycle' = "none"
    /\ pc' = "query"
    /\ UNCHANGED <<config, world, dbReady, cache, results, idx, locals,
                   exit>>

\* An exception raised outside the cycle's handler, by the sleep, that a handler
\* inside the while loop catches: the loop goes on.
SleepRaises_inside_loop ==
    /\ pc = "sleep"
    /\ cycle' = "raised"
    /\ pc' = "query"
    /\ UNCHANGED <<config, world, dbReady, cache, results, idx, locals,
                   exit>>

\* asyncio.sleep raises: the exception is outside the cycle's handler and
\* reaches the outer handler of poll_loop, which logs it with its traceback;
\* poll_loop returns, the task ends, the process goes on.
SleepRaises ==
    /\ pc = "sleep"
    /\ cycle' = "raised"
    /\ pc' = "stopped"
    /\ UNCHANGED <<config, world, dbReady, cache, results, idx, locals,
                   exit>>

\* GET /health, served once the startup is over: it answers "ok" with the
\* configuration flags and changes nothing.
Health ==
    /\ pc # "startup"
    /\ UNCHANGED vars

\* ------------------------------------------- process_validated_page: control
\* The handler re-raising what it caught.
process_exit_reraise(raised) == IF raised THEN "raised" ELSE "returned"

\* What poll_loop sees when a run ends: the handler of process_validated_page
\* catches every exception, logs it and returns.
process_exit(raised) == IF raised THEN "caught" ELSE "returned"

\* The run goes on at `target`, or returns to poll_loop.
Continue(target) ==
    /\ pc' = IF target = "return" THEN "dispatch" ELSE target
    /\ exit' = IF target = "return" THEN process_exit(FALSE) ELSE exit

\* An exception reaches the handler of process_validated_page.
Raise ==
    /\ pc' = "dispatch"
    /\ exit' = process_exit(TRUE)

\* AfterFields without the status filter.
AfterFields_no_status_filter(d) ==
    IF ~validate_page_data(d).is_valid THEN "return" ELSE "check"

\* After get_page_fields: validation, then the status filter.
AfterFields(d) ==
    IF ~validate_page_data(d).is_valid THEN "return"
    ELSE IF d.status # "Validated" THEN "return"
    ELSE "check"

\* After the idempotency check.
AfterCheck(synced) == IF synced THEN "return" ELSE "content"

\* The branch decided by the flag alone.
CreationBranch_flag_only == IF GITHUB_PROJECT_CREATE_DRAFT THEN "draft" ELSE "issue"

\* "if GITHUB_PROJECT_CREATE_DRAFT and GITHUB_PROJECT_ID": draft, else issue.
CreationBranch ==
    IF GITHUB_PROJECT_CREATE_DRAFT /\ GITHUB_PROJECT_ID THEN "draft" ELSE "issue"

\* "if issue": the mapping recorded under DRY_RUN too.
AfterCreate_record_dry_run(iss) == IF iss # <<>> THEN "record" ELSE "mark"

\* The mapping recorded after the write-backs only, that is, not here.
AfterCreate_no_record(iss) == "mark"

\* "if issue and not DRY_RUN": record the mapping, else go on to the write-backs.
AfterCreate(iss) == IF iss # <<>> /\ ~DRY_RUN THEN "record" ELSE "mark"

\* c) Size.
AfterPriority(item, d) ==
    IF item # None /\ d.size # None THEN "size" ELSE "return"

\* b) Priority.
AfterStatus(item, d) ==
    IF item # None /\ d.priority # None THEN "priority" ELSE AfterPriority(item, d)

\* The Status step taken without a project item id.
AfterLink_no_item_check(item, d) ==
    IF GITHUB_PROJECT_STATUS_IDS THEN "pstatus" ELSE AfterStatus(item, d)

\* Status via the configured ids.
AfterLink(item, d) ==
    IF item # None /\ GITHUB_PROJECT_STATUS_IDS THEN "pstatus" ELSE AfterStatus(item, d)

\* 4) "if GITHUB_PROJECT_ID": link the issue unless a draft item exists.
AfterBacklog(iss, item, d) ==
    IF ~GITHUB_PROJECT_ID THEN "return"
    ELSE IF item = None /\ iss # <<>> /\ iss[1].node_id THEN "link"
    ELSE AfterLink(item, d)

\* The write-backs without their try/except.
writeback_raises_uncaught(res) == res = "fail"

\* mark_synced and set_status_to_backlog catch their own exceptions.
writeback_raises(res) == FALSE

\* The field sub-steps without their try/except.
field_step_raises_uncaught(res) == res # "ok"

\* Each project field sub-step runs in its own try/except.
field_step_raises(res) == FALSE

\* ------------------------------------------------- outcomes of external calls
\* The outcomes a call may have: "ok", "fail" (it raises, the remote system
\* unchanged), "dry" (short-circuited by DRY_RUN), "none" (an answer without
\* the item id).
\* create_github_issue without the DRY_RUN short-circuit.
create_github_issue_always_posts(n) == IF n < MaxItems THEN {"ok", "fail"} ELSE {"fail"}

\* create_github_issue: the sentinel issue under DRY_RUN, else the POST.
create_github_issue(n) ==
    IF DRY_RUN THEN {"dry"}
    ELSE IF n < MaxItems THEN {"ok", "fail"} ELSE {"fail"}

\* gh_graphql: {"data": {}} under DRY_RUN, else the POST; it raises on a
\* transport error and on an "errors" member.
gh_graphql == IF DRY_RUN THEN {"dry"} ELSE {"ok", "fail"}

\* notion.pages.update as mark_synced and set_status_to_backlog call it.
notion_update == IF DRY_RUN THEN {"dry"} ELSE {"ok", "fail"}

\* ---------------------------------------------- process_validated_page: steps
\* data = await get_page_fields(page_id); validation; status filter.
GetPageFields ==
    /\ pc = "fields"
    /\ \E ok \in BOOLEAN, t \in Titles, pr \in Priorities, sz \in Sizes :
        LET d == [title |-> t, status |-> notion[page_id].status,
                  priority |-> pr, size |-> sz]
        IN  IF ok
            THEN /\ data' = d
                 /\ validation' = validate_page_data(d)
                 /\ log' = Append(log, Call("get_page_fields", "ok"))
                 /\ Continue(AfterFields(d))
            ELSE /\ data' = data
                 /\ validation' = validation
                 /\ log' = Append(log, Call("get_page_fields", "fail"))
                 /\ Raise
    /\ UNCHANGED <<config, world, dbReady, cache, results, idx, page_id,
                   page_content, issue, project_item_id, hadRow,
                   blocks, customer_types, labels, field_ids, cycle>>

\* if await already_synced(session, page_id): return
AlreadySynced ==
    /\ pc = "check"
    /\ \E ok \in BOOLEAN :
        IF ok
        THEN /\ log' = Append(log, Call("already_synced", "ok"))
             /\ Continue(AfterCheck(already_synced(page_id)))
        ELSE /\ log' = Append(log, Call("already_synced", "fail"))
             /\ Raise
    /\ UNCHANGED <<config, world, dbReady, cache, results, idx, page_id,
                   data, page_content, issue, project_item_id, hadRow,
                   validation, blocks, customer_types, labels, field_ids, cycle>>

\* page_content = await get_page_content(page_id): the markdown, or a placeholder
\* when the fetch fails, returns no blocks or converts to nothing; then
\* labels = _labels_for_issue(data["customer_types"], ...), whose first argument
\* is read nowhere else and is drawn here.
GetPageContent ==
    /\ pc = "content"
    /\ \E f \in Fetched, cts \in CustomerTypes :
        /\ blocks' = f
        /\ page_content' = get_page_content(f)
        /\ customer_types' = cts
        /\ labels' = _labels_for_issue(cts, data.priority, data.size)
        /\ log' = Append(log, Call("get_page_content", "ok"))
    /\ Continue("create")
    /\ UNCHANGED <<config, world, dbReady, cache, results, idx, page_id,
                   data, issue, project_item_id, hadRow,
                   validation, field_ids, cycle>>

\* create_draft_item_in_project: gh_graphql, then the item id of the answer, or
\* None when the answer holds none (always so under DRY_RUN).
create_draft_item_in_project(n) ==
    {r \in gh_graphql \cup (IF DRY_RUN THEN {} ELSE {"none"}) : r = "ok" => n < MaxItems}

\* add_issue_to_project: gh_graphql, then the item id of the answer, or None.
add_issue_to_project == gh_graphql \cup (IF DRY_RUN THEN {} ELSE {"none"})

\* 1) the draft branch.
CreateDraftItem ==
    /\ pc = "create"
    /\ CreationBranch = "draft"
    /\ \E r \in create_draft_item_in_project(Len(drafts)) :
        /\ log' = Append(log, Call("create_draft_item_in_project", r))
        /\ drafts' = IF r = "ok" THEN Append(drafts, page_id) ELSE drafts
        /\ project_item_id' = IF r = "ok" THEN "PVTI_draft" ELSE None
        /\ IF r = "fail" THEN Raise ELSE Continue(AfterCreate(issue))
    /\ page_content' = <<>>
    /\ blocks' = NoBlocks
    /\ customer_types' = <<>>
    /\ labels' = <<>>
    /\ UNCHANGED <<config, notion, mapping, issues, dbReady, cache, results,
                   idx, page_id, data, issue, hadRow,
                   validation, field_ids, cycle>>

\* 1) the issue branch.
CreateIssue ==
    /\ pc = "create"
    /\ CreationBranch = "issue"
    /\ \E r \in create_github_issue(Len(issues)) :
        LET created ==
                IF r = "ok" THEN <<[number |-> Len(issues) + 1, node_id |-> TRUE]>>
                ELSE IF r = "dry" THEN <<[number |-> DryRunIssueNumber, node_id |-> TRUE]>>
                ELSE <<>>
        IN  /\ log' = Append(log, Call("create_github_issue", r))
            /\ issues' = IF r = "ok" THEN Append(issues, page_id) ELSE issues
            /\ issue' = created
            /\ IF r = "fail" THEN Raise ELSE Continue(AfterCreate(created))
    /\ page_content' = <<>>
    /\ blocks' = NoBlocks
    /\ customer_types' = <<>>
    /\ labels' = <<>>
    /\ UNCHANGED <<config, notion, mapping, drafts, dbReady, cache, results,
                   idx, page_id, data, project_item_id, hadRow,
                   validation, field_ids, cycle>>

\* 2) await record_mapping(session, page_id, issue["number"])
RecordMapping ==
    /\ pc = "record"
    /\ \E ok \in BOOLEAN :
        IF ok
        THEN /\ mapping' = record_mapping(page_id, issue[1].number)
             /\ log' = Append(log, Call("record_mapping", "ok"))
             /\ Continue("mark")
        ELSE /\ mapping' = mapping
             /\ log' = Append(log, Call("record_mapping", "fail"))
             /\ Raise
    /\ UNCHANGED <<config, notion, issues, drafts, dbReady, cache, results,
                   idx, page_id, data, page_content, issue, project_item_id, hadRow,
                   validation, blocks, customer_types, labels, field_ids, cycle>>

\* 3) await mark_synced(page_id)
MarkSynced ==
    /\ pc = "mark"
    /\ \E r \in notion_update :
        /\ notion' = IF r = "ok" THEN [notion EXCEPT ![page_id].in_sync = TRUE] ELSE notion
        /\ log' = Append(log, Call("mark_synced", r))
        /\ IF writeback_raises(r) THEN Raise ELSE Continue("backlog")
    /\ UNCHANGED <<config, mapping, issues, drafts, dbReady, cache, results,
                   idx, page_id, data, page_content, issue, project_item_id, hadRow,
                   validation, blocks, customer_types, labels, field_ids, cycle>>

\* 3) await set_status_to_backlog(page_id)
SetStatusToBacklog ==
    /\ pc = "backlog"
    /\ \E r \in notion_update :
        /\ notion' = IF r = "ok" THEN [notion EXCEPT ![page_id].status = "Backlog"] ELSE notion
        /\ log' = Append(log, Call("set_status_to_backlog", r))
        /\ IF writeback_raises(r) THEN Raise
           ELSE Continue(AfterBacklog(issue, project_item_id, data))
    /\ UNCHANGED <<config, mapping, issues, drafts, dbReady, cache, results,
                   idx, page_id, data, page_content, issue, project_item_id, hadRow,
                   validation, blocks, customer_types, labels, field_ids, cycle>>

\* 4a) project_item_id = await add_issue_to_project(GITHUB_PROJECT_ID, issue["node_id"])
AddIssueToProject ==
    /\ pc = "link"
    /\ \E r \in add_issue_to_project :
        LET item == IF r = "ok" THEN "PVTI_issue" ELSE None
        IN  /\ project_item_id' = item
            /\ log' = Append(log, Call("add_issue_to_project", r))
            /\ IF r = "fail" THEN Raise ELSE Continue(AfterLink(item, data))
    /\ UNCHANGED <<config, world, dbReady, cache, results, idx, page_id,
                   data, page_content, issue, hadRow,
                   validation, blocks, customer_types, labels, field_ids, cycle>>

\* 4a) set_project_status with the configured field and option ids.
SetProjectStatus ==
    /\ pc = "pstatus"
    /\ \E r \in gh_graphql :
        /\ log' = Append(log, Call("set_project_status", r))
        /\ IF field_step_raises(r) THEN Raise
           ELSE Continue(AfterStatus(project_item_id, data))
    /\ UNCHANGED <<config, world, dbReady, cache, results, idx, page_id,
                   data, page_content, issue, project_item_id, hadRow,
                   validation, blocks, customer_types, labels, field_ids, cycle>>

\* ------------------------------------------------------ project field schema
PRIORITY_MAP_NOTION_TO_GH(p) ==
    CASE p = "Large" -> "Extremo"
      [] p = "Medium" -> "Medio"
      [] p = "Low" -> "Baixa"
      [] OTHER -> p

SIZE_MAP_NOTION_TO_GH(z) == z

\* "if not field_map": the project has no entry, or an empty one.
CacheMiss(c) == ~c.present \/ c.field_map = {}

\* field_map = { n["name"]: n for n in nodes if single-select }
FieldMapOf(nodes) == {n \in nodes : n.typename = SingleSelect}

\* A lookup that does not verify the option.
Lookup_unchecked_option(field_map, field_name, option_label) ==
    IF ~\E f \in field_map : f.name = field_name
    THEN [res |-> "no_field", field_id |-> None, option_id |-> None]
    ELSE [res |-> "ok",
          field_id |-> (CHOOSE g \in field_map : g.name = field_name).id,
          option_id |-> None]

\* The lookup of get_project_field_and_option_ids in a field map.
Lookup(field_map, field_name, option_label) ==
    IF ~\E f \in field_map : f.name = field_name
    THEN [res |-> "no_field", field_id |-> None, option_id |-> None]
    ELSE LET f == CHOOSE g \in field_map : g.name = field_name
         IN  IF ~\E o \in f.options : o.name = option_label
             THEN [res |-> "no_option", field_id |-> None, option_id |-> None]
             ELSE [res |-> "ok", field_id |-> f.id,
                   option_id |-> (CHOOSE o \in f.options : o.name = option_label).id]

\* One of the sub-steps b) and c): get_project_field_and_option_ids (with the
\* schema-discovery query on a cache miss), then set_project_single_select, all
\* in one try/except.
FieldStep(field_name, option_label, opResolve, opSet, target) ==
    \E q \in gh_graphql, m \in gh_graphql, remoteSchema \in RemoteSchemas :
        LET miss == CacheMiss(cache)
            nodes == IF q = "ok" THEN remoteSchema ELSE {}
            filled == [present |-> TRUE, field_map |-> FieldMapOf(nodes)]
            cached == IF miss /\ q # "fail" THEN filled ELSE cache
            found == Lookup(cached.field_map, field_name, option_label)
            resolved == IF miss /\ q = "fail" THEN "fail" ELSE found.res
            calls ==
                (IF miss THEN <<Call("schema_query", q)>> ELSE <<>>)
                \o <<Call(opResolve, resolved)>>
                \o (IF resolved = "ok" THEN <<Call(opSet, m)>> ELSE <<>>)
            res == calls[Len(calls)].res
        IN  /\ cache' = cached
            /\ field_ids' = IF resolved = "ok"
                            THEN <<found.field_id, found.option_id>>
                            ELSE <<>>
            /\ log' = log \o calls
            /\ IF field_step_raises(res) THEN Raise ELSE Continue(target)

\* 4b) Priority
SetProjectPriority ==
    /\ pc = "priority"
    /\ FieldStep("Priority", PRIORITY_MAP_NOTION_TO_GH(data.priority),
                 "resolve_priority", "set_priority", AfterPriority(project_item_id, data))
    /\ UNCHANGED <<config, world, dbReady, results, idx, page_id,
                   data, page_content, issue, project_item_id, hadRow,
                   validation, blocks, customer_types, labels, cycle>>

\* 4c) Size
SetProjectSize ==
    /\ pc = "size"
    /\ FieldStep("Size", SIZE_MAP_NOTION_TO_GH(data.size),
                 "resolve_size", "set_size", "return")
    /\ UNCHANGED <<config, world, dbReady, results, idx, page_id,
                   data, page_content, issue, project_item_id, hadRow,
                   validation, blocks, customer_types, labels, cycle>>

\* ---------------------------------------------------------------- environment
\* The process is killed and started again: memory is lost, sync.db and the
\* remote systems stay.
Crash ==
    /\ pc # "startup"
    /\ pc' = "startup"
    /\ cache' = EmptyCache
    /\ results' = <<>>
    /\ idx' = 0
    /\ page_id' = None
    /\ hadRow' = FALSE
    /\ exit' = "none"
    /\ cycle' = "none"
    /\ ResetLocals
    /\ UNCHANGED <<config, world, dbReady>>

\* A Notion user sets or clears the Status of a page.  The program reads a
\* Status in the poll query and in get_page_fields only, so an edit is taken
\* right before the read that first sees it.
UserEdit ==
    /\ pc \in {"query", "fields"}
    /\ \E p \in Pages, st \in {None, "Draft", "Validated"} :
        /\ pc = "fields" => p = page_id
        /\ st # notion[p].status
        /\ notion' = [notion EXCEPT ![p].status = st]
    /\ UNCHANGED <<config, mapping, issues, drafts, dbReady, cache, pc,
                   results, idx, locals, exit, cycle>>

Next ==
    \/ Startup
    \/ QueryOk
    \/ QueryFail
    \/ Dispatch
    \/ CycleEnd
    \/ Sleep
    \/ SleepRaises
    \/ Health
    \/ GetPageFields
    \/ AlreadySynced
    \/ GetPageContent
    \/ CreateDraftItem
    \/ CreateIssue
    \/ RecordMapping
    \/ MarkSynced
    \/ SetStatusToBacklog
    \/ AddIssueToProject
    \/ SetProjectStatus
    \/ SetProjectPriority
    \/ SetProjectSize
    \/ Crash
    \/ UserEdit

Spec == Init /\ [][Next]_vars
\* ===================================================================== claims
Ops == {log[i].op : i \in DOMAIN log}
Logged(op, res) == \E i \in DOMAIN log : log[i] = Call(op, res)
RunEnded == pc = "dispatch" /\ log # <<>>
\* The issues created for page p.
IssuesFor(p) == {n \in DOMAIN issues : issues[n] = p}
\* Title and status are present.
Eligible(d) == d.title # "" /\ d.title # NoTitle /\ d.status # None
DraftBranchSelected == GITHUB_PROJECT_CREATE_DRAFT /\ GITHUB_PROJECT_ID
\* The calls that change a remote system or sync.db.
MutatingOps ==
    {"create_github_issue", "create_draft_item_in_project", "record_mapping",
     "mark_synced", "set_status_to_backlog", "add_issue_to_project",
     "set_project_status", "set_priority", "set_size"}

\* C1: with dry-run off and the work-item branch selected, no page ever has more
\* than one issue created for it, whatever fails and wherever the process
\* restarts.
C1_AtMostOneWorkItem ==
    (~DRY_RUN /\ ~DraftBranchSelected) =>
        \A p \in Pages : Cardinality(IssuesFor(p)) <= 1

\* C2: a run for a page that already has a mapping row issues nothing beyond the
\* field read and the idempotency check.
C2_SyncedRunStopsAtCheck ==
    hadRow => /\ Ops \subseteq {"get_page_fields", "already_synced"}
              /\ Logged("already_synced", "ok") => (RunEnded /\ exit = "returned")

C2_Witness ==
    /\ hadRow
    /\ RunEnded
    /\ log = <<Call("get_page_fields", "ok"), Call("already_synced", "ok")>>

\* C3: in a run that created an issue, every write-back and project mutation
\* comes after the commit of the mapping row, which comes after the creation.
C3_MappingBeforeWritebacks ==
    \A i \in DOMAIN log :
        (/\ log[i].op \in MutatingOps \ {"create_github_issue", "record_mapping"}
         /\ Logged("create_github_issue", "ok"))
        => /\ \E c, m \in DOMAIN log :
                /\ c < m /\ m < i
                /\ log[c] = Call("create_github_issue", "ok")
                /\ log[m] = Call("record_mapping", "ok")
           /\ [notion_page_id |-> page_id, github_issue_number |-> issue[1].number]
                \in mapping

C3_Witness ==
    /\ RunEnded
    /\ Logged("create_github_issue", "ok")
    /\ {"mark_synced", "set_status_to_backlog", "add_issue_to_project",
        "set_project_status", "set_priority", "set_size"} \subseteq Ops

\* C4: under dry-run nothing is ever created or written: no issue, draft or
\* mapping row exists, no page is touched, every mutating call of a run is
\* short-circuited, and the issue of a run carries the sentinel number.
C4_DryRunNoMutation ==
    DRY_RUN =>
        /\ issues = <<>> /\ drafts = <<>> /\ mapping = {}
        /\ \A p \in Pages : ~notion[p].in_sync /\ notion[p].status # "Backlog"
        /\ \A i \in DOMAIN log : log[i].op \in MutatingOps => log[i].res = "dry"
        /\ issue # <<>> => issue[1].number = DryRunIssueNumber

C4_Witness ==
    /\ DRY_RUN
    /\ RunEnded
    /\ issue # <<>>
    /\ Logged("mark_synced", "dry")
    /\ Logged("add_issue_to_project", "dry")

C6_IneligibleNoMutation ==
    (/\ Logged("get_page_fields", "ok")
     /\ ~Eligible(data) \/ data.status # "Validated")
    => /\ log = <<Call("get_page_fields", "ok")>>
       /\ RunEnded
       /\ exit = "returned"

C6_Witness ==
    /\ Logged("get_page_fields", "ok")
    /\ Eligible(data)
    /\ data.status = "Draft"
    /\ RunEnded

\* C7: a finished run for an eligible, Validated, unmapped record, with dry-run
\* off, the issue branch and no failing call, made the calls fields, check,
\* content, creation, mapping, sync flag, Backlog in this order, created one
\* issue, and left exactly one row for the page, holding that issue's number.
C7_HappyPath ==
    (/\ RunEnded
     /\ ~DRY_RUN /\ ~DraftBranchSelected
     /\ ~hadRow
     /\ Eligible(data) /\ data.status = "Validated"
     /\ \A i \in DOMAIN log : log[i].res # "fail")
    => /\ Len(log) >= 7
       /\ SubSeq(log, 1, 7) =
            <<Call("get_page_fields", "ok"), Call("already_synced", "ok"),
              Call("get_page_content", "ok"), Call("create_github_issue", "ok"),
              Call("record_mapping", "ok"), Call("mark_synced", "ok"),
              Call("set_status_to_backlog", "ok")>>
       /\ \A i \in DOMAIN log : i > 7 => log[i].op \notin {"create_github_issue",
              "create_draft_item_in_project", "record_mapping"}
       /\ issue # <<>>
       /\ issue[1].number \in IssuesFor(page_id)
       /\ {r \in mapping : r.notion_page_id = page_id} =
            {[notion_page_id |-> page_id, github_issue_number |-> issue[1].number]}

C7_Witness ==
    /\ RunEnded
    /\ ~DRY_RUN /\ ~DraftBranchSelected /\ GITHUB_PROJECT_ID
    /\ ~hadRow
    /\ Eligible(data) /\ data.status = "Validated"
    /\ \A i \in DOMAIN log : log[i].res = "ok"
    /\ "set_size" \in Ops

\* C8: no exception leaves process_validated_page; the run in progress is the one
\* for the idx-th id of the cycle; a cycle reaches its sleep only with every
\* returned id dispatched; and when a run has ended in an exception with ids
\* left, the next step of the process is the run for the next id.
C8_ErrorsStayInRun ==
    /\ [](/\ exit # "raised"
          /\ pc = "sleep" => idx = Len(results)
          /\ (pc \notin {"startup", "query", "sleep"} /\ log # <<>>)
                => page_id = results[idx])
    /\ [][(RunEnded /\ exit = "caught" /\ idx < Len(results))
            => \/ pc' = "fields" /\ page_id' = results[idx + 1] /\ idx' = idx + 1
               \/ pc' = "startup"]_vars

C8_Witness ==
    /\ RunEnded
    /\ exit = "caught"
    /\ log[Len(log)].res = "fail"
    /\ idx = 1
    /\ Len(results) = 2

\* C9: the Backlog write-back follows the sync-flag write-back whatever the
\* latter's outcome, and a finished run that made the Backlog write-back went on
\* to the project link and the project Status step where they apply.
C9_WritebacksBestEffort ==
    /\ \A i \in DOMAIN log :
         log[i].op = "mark_synced" =>
            IF i = Len(log) THEN pc = "backlog"
            ELSE log[i + 1].op = "set_status_to_backlog"
    /\ (RunEnded /\ "set_status_to_backlog" \in Ops /\ GITHUB_PROJECT_ID) =>
         /\ issue # <<>> => "add_issue_to_project" \in Ops
         /\ (project_item_id # None /\ GITHUB_PROJECT_STATUS_IDS) =>
                "set_project_status" \in Ops
         /\ (project_item_id # None /\ data.priority # None) => "resolve_priority" \in Ops
         /\ (project_item_id # None /\ data.size # None) => "resolve_size" \in Ops

C9_Witness ==
    /\ RunEnded
    /\ Logged("mark_synced", "fail")
    /\ Logged("set_status_to_backlog", "fail")
    /\ Logged("add_issue_to_project", "ok")
    /\ "set_project_status" \in Ops
    /\ "resolve_size" \in Ops

\* C10: a finished run that holds a project item id, with a project configured,
\* attempted each applicable field sub-step (Status, Priority, Size), whatever
\* the outcome of the others.
C10_FieldStepsIndependent ==
    (RunEnded /\ GITHUB_PROJECT_ID /\ project_item_id # None) =>
        /\ GITHUB_PROJECT_STATUS_IDS => "set_project_status" \in Ops
        /\ data.priority # None => "resolve_priority" \in Ops
        /\ data.size # None => "resolve_size" \in Ops

C10_Witness ==
    /\ RunEnded
    /\ Logged("set_project_status", "fail")
    /\ Logged("resolve_priority", "no_option")
    /\ "resolve_size" \in Ops

\* C11: once a schema-discovery query has succeeded in this process (the cache
\* holds an entry for the project), no later field step issues another
\* schema-discovery query, whatever the discovered schema contains.
C11_OneDiscoveryPerProcess ==
    [][(cache.present /\ pc \in {"priority", "size"}) =>
          ~(/\ Len(log') > Len(log)
            /\ log'[Len(log) + 1].op = "schema_query")]_vars

\* The last resolve call of the run: its log entry, the field it named and the
\* option label it asked for.
ResolveOps == {"resolve_priority", "resolve_size"}
LastResolveAt ==
    CHOOSE i \in DOMAIN log :
        /\ log[i].op \in ResolveOps
        /\ \A j \in DOMAIN log : log[j].op \in ResolveOps => j <= i
LastResolveField ==
    IF log[LastResolveAt].op = "resolve_priority" THEN "Priority" ELSE "Size"
LastResolveLabel ==
    IF log[LastResolveAt].op = "resolve_priority"
    THEN PRIORITY_MAP_NOTION_TO_GH(data.priority)
    ELSE SIZE_MAP_NOTION_TO_GH(data.size)

\* C12: a resolve call whose schema is available returns the field id and the
\* option id of the cached schema when the field is there and the label is one
\* of its options, fails (returning nothing) when the field is absent and when
\* the option is absent, and a failing lookup leaves the cached schema as it
\* was: a field step that finds the schema cached never changes the cache.
C12_ResolveFromCachedSchema ==
    /\ [](((\E i \in DOMAIN log : log[i].op \in ResolveOps)
            /\ log[LastResolveAt].res # "fail") =>
           LET res == log[LastResolveAt].res
               fields == {f \in cache.field_map : f.name = LastResolveField}
               hits == {<<f.id, o.id>> : f \in fields,
                        o \in {x \in UNION {g.options : g \in fields} :
                                 x.name = LastResolveLabel}}
           IN  /\ cache.present
               /\ res = "no_field" <=> fields = {}
               /\ res = "no_option" <=> (fields # {} /\ hits = {})
               /\ res = "ok" <=> hits # {}
               /\ res = "ok" => field_ids \in hits
               /\ res # "ok" => field_ids = <<>>)
    /\ [][(pc \in {"priority", "size"} /\ ~CacheMiss(cache) /\ pc' # "startup")
            => cache' = cache]_vars

C12_Witness ==
    /\ RunEnded
    /\ Logged("resolve_priority", "no_option")
    /\ Logged("resolve_size", "no_field")
    /\ cache.present
    /\ cache.field_map # {}

\* ------------------------------------------------- the idempotency store alone
\* init_db, record_mapping and already_synced called in any order with any
\* arguments, over process restarts.  log keeps every record call made so far,
\* with the page id it was given.
StoreInit ==
    /\ Init
    /\ config = [DRY_RUN |-> FALSE, GITHUB_PROJECT_ID |-> FALSE,
                 GITHUB_PROJECT_CREATE_DRAFT |-> FALSE,
                 GITHUB_PROJECT_STATUS_IDS |-> FALSE]
    /\ notion = [p \in Pages |-> [status |-> "Validated", in_sync |-> FALSE]]

storeRest == <<config, notion, issues, drafts, cache, results, idx, data,
               page_content, issue, project_item_id, exit, validation, blocks,
               customer_types, labels, field_ids, cycle>>

\* init_db: CREATE TABLE IF NOT EXISTS keeps the rows of an existing table.
StoreInitDb ==
    /\ pc = "startup"
    /\ dbReady' = TRUE
    /\ pc' = "store"
    /\ UNCHANGED <<mapping, page_id, hadRow, log, storeRest>>

StoreRecord ==
    /\ pc = "store"
    /\ Len(log) < MaxCalls
    /\ \E p \in Pages, n \in 1 .. MaxItems :
        /\ mapping' = record_mapping(p, n)
        /\ log' = Append(log, Call("record_mapping", p))
    /\ UNCHANGED <<dbReady, pc, page_id, hadRow, storeRest>>

StoreHas ==
    /\ pc = "store"
    /\ \E p \in Pages :
        /\ page_id' = p
        /\ hadRow' = already_synced(p)
    /\ UNCHANGED <<mapping, dbReady, pc, log, storeRest>>

\* The process ends and starts again; sync.db stays.
StoreRestart ==
    /\ pc = "store"
    /\ pc' = "startup"
    /\ page_id' = None
    /\ hadRow' = FALSE
    /\ UNCHANGED <<mapping, dbReady, log, storeRest>>

StoreNext ==
    \/ StoreInitDb
    \/ StoreRecord
    \/ StoreHas
    \/ StoreRestart

SpecStore == StoreInit /\ [][StoreNext]_vars

Recorded == {log[i].res : i \in DOMAIN log}
RowsOf(p) == {r \in mapping : r.notion_page_id = p}

\* C13: after any sequence of record calls, has(id) is true exactly for the
\* recorded ids, the table holds exactly one row per recorded id (a second
\* record of an id adds no row) and none for the others, and no step removes
\* the row of an id: has(id) once true stays true, over restarts too.
C13_StoreKeepsOneRowPerId ==
    /\ [](\A p \in Pages :
            /\ already_synced(p) <=> p \in Recorded
            /\ Cardinality(RowsOf(p)) = (IF p \in Recorded THEN 1 ELSE 0)
            /\ (page_id = p /\ hadRow) => p \in Recorded)
    /\ [][\A r \in mapping :
            \E r2 \in mapping' : r2.notion_page_id = r.notion_page_id]_vars

\* A page recorded twice, seen by has() after a restart.
C13_Witness ==
    /\ Len(log) = 3
    /\ log[1].res = log[2].res
    /\ log[3].res # log[1].res
    /\ pc = "store"
    /\ page_id = log[1].res
    /\ hadRow
    /\ Cardinality(mapping) = 2

\* C14: for every combination of a present, absent or sentinel title and of
\* present or absent status, priority and size, validate_page_data returns
\* (false, "Missing required fields: ...") naming the missing required fields,
\* title before status, when the title is absent or the sentinel or the status
\* is absent; otherwise (true, "Warning: Missing optional fields: ...") naming
\* the absent ones of priority and size when one is absent; otherwise
\* (true, "OK").  A missing priority or size alone never gives false.
C14_ValidationShapes ==
    validation # NoValidation =>
        LET noTitle == data.title \in {"", NoTitle}
            noStatus == data.status = None
            noPriority == data.priority = None
            noSize == data.size = None
        IN  /\ validation.is_valid <=> ~(noTitle \/ noStatus)
            /\ (noTitle \/ noStatus) =>
                 /\ validation.message = "Missing required fields: "
                 /\ validation.names =
                        (IF noTitle /\ noStatus THEN <<"title", "status">>
                         ELSE IF noTitle THEN <<"title">> ELSE <<"status">>)
            /\ (~(noTitle \/ noStatus) /\ (noPriority \/ noSize)) =>
                 /\ validation.message = "Warning: Missing optional fields: "
                 /\ validation.names =
                        (IF noPriority /\ noSize THEN <<"priority", "size">>
                         ELSE IF noPriority THEN <<"priority">> ELSE <<"size">>)
            /\ ~(noTitle \/ noStatus \/ noPriority \/ noSize) =>
                 /\ validation.message = "OK"
                 /\ validation.names = <<>>

\* The sentinel title together with an absent status and an absent priority.
C14_Witness ==
    /\ validation.names = <<"title", "status">>
    /\ ~validation.is_valid
    /\ data.title = NoTitle
    /\ data.priority = None
    /\ data.size # None

\* A string of white space only, the empty string included.
Blank(s) == \A i \in DOMAIN s : s[i] \in {" ", "\n"}

\* The kinds of block whose only output is their rich text.
TextKinds == {"paragraph", "heading_1", "heading_2", "heading_3",
              "bulleted_list_item", "numbered_list_item", "to_do", "code",
              "quote", "callout"}

\* C15: a content fetch that fails, returns no block or converts to empty text
\* does not end the run: get_page_content returns its fixed placeholder for the
\* case, and the run goes on to the creation step with that placeholder as the
\* content.
C15_ContentPlaceholders ==
    /\ [](pc = "create" =>
            /\ log[Len(log)] = Call("get_page_content", "ok")
            /\ blocks.outcome \in {"ok", "fail"}
            /\ blocks.outcome = "fail" => page_content = FailedToFetch
            /\ (blocks.outcome = "ok" /\ blocks.results = <<>>) =>
                    page_content = NoContentFound
            /\ (/\ blocks.outcome = "ok"
                /\ blocks.results # <<>>
                /\ \A i \in DOMAIN blocks.results :
                      /\ blocks.results[i].type \in TextKinds
                      /\ Blank(blocks.results[i].text)) =>
                    page_content = NoReadableContentFound
            /\ ~Blank(page_content))
    /\ [][pc = "content" => pc' \in {"create", "startup"}]_vars

\* The block listing failed and the run stands before the creation call with the
\* placeholder.
C15_Witness ==
    /\ pc = "create"
    /\ blocks.outcome = "fail"
    /\ page_content = FailedToFetch
    /\ exit = "none"

\* C16: a failure of the cycle's query is caught inside the cycle and does not
\* end the loop: from the query the loop goes to the dispatch of the results
\* or, on failure, to the sleep; a cycle whose results are all dispatched goes
\* to the sleep; and the sleep, when it returns, is followed by the query of the
\* next cycle.  (The other steps are a restart of the process and the sleep
\* itself raising, which is outside the cycle.)
C16_CycleFailureKeepsLoop ==
    /\ [](cycle = "failed" => pc = "sleep")
    /\ [][(pc = "query" /\ pc' # "startup") =>
            \/ pc' = "query" /\ cycle' = cycle
            \/ pc' = "dispatch" /\ cycle' = "ok"
            \/ pc' = "sleep" /\ cycle' = "failed"]_vars
    /\ [][(pc = "dispatch" /\ idx = Len(results) /\ pc' # "startup") =>
            pc' = "sleep"]_vars
    /\ [][(pc = "sleep" /\ pc' \notin {"startup", "stopped"}) => pc' = "query"]_vars

\* The query of a cycle failed after an earlier cycle had created an issue, and
\* the loop stands at its sleep.
C16_Witness ==
    /\ pc = "sleep"
    /\ cycle = "failed"
    /\ issues # <<>>

\* The positions of poll_loop outside a run of process_validated_page.
LoopPcs == {"startup", "query", "dispatch", "sleep", "stopped"}

\* C17: at most one run is in flight: a run starts only from the loop, when the
\* run before it has ended, for the id that follows the one dispatched last in
\* the order the query returned; while a run is in flight the loop's position
\* in the results stays; a cycle ends, and the next one starts, only when every
\* id of the results was dispatched and its run has ended; so a row is written
\* only by the run in flight, for its own page, and the schema cache only by
\* that run's field steps.
C17_OneRunAtATime ==
    /\ [](pc \notin LoopPcs => (idx \in DOMAIN results /\ page_id = results[idx]))
    /\ [][(pc' = "fields" /\ pc # "fields") =>
            /\ pc = "dispatch"
            /\ idx' = idx + 1
            /\ page_id' = results[idx + 1]
            /\ results' = results]_vars
    /\ [][(pc \notin LoopPcs /\ pc' # "startup") =>
            /\ pc' \notin {"query", "sleep"}
            /\ UNCHANGED <<results, idx, page_id>>]_vars
    /\ [][(pc' = "sleep" /\ pc # "sleep") =>
            \/ pc = "query" /\ cycle' = "failed"
            \/ pc = "dispatch" /\ idx = Len(results)]_vars
    /\ [][mapping' # mapping =>
            /\ pc = "record"
            /\ \A r \in mapping' \ mapping : r.notion_page_id = page_id]_vars
    /\ [][(cache' # cache /\ pc' # "startup") => pc \in {"priority", "size"}]_vars

\* The run of the second id of a cycle writes its row after the run of the first
\* id wrote its own.
C17_Witness ==
    /\ pc = "mark"
    /\ idx = 2
    /\ Cardinality(mapping) = 2
    /\ Logged("record_mapping", "ok")

\* C18: the label list handed to the creation call is, for every combination of
\* customer categories, priority and size: the categories as they are and in
\* their order, then one "Priority:<value>" label exactly when a priority is
\* there, then one "Size:<value>" label exactly when a size is there, and
\* nothing else.
C18_LabelList ==
    pc = "create" =>
        LET n == Len(customer_types)
            hasPriority == data.priority # None
            hasSize == data.size # None
            atPriority == n + 1
            atSize == n + (IF hasPriority THEN 1 ELSE 0) + 1
        IN  /\ Len(labels) = n + (IF hasPriority THEN 1 ELSE 0)
                               + (IF hasSize THEN 1 ELSE 0)
            /\ \A i \in 1 .. n : labels[i] = customer_types[i]
            /\ hasPriority => labels[atPriority] = <<"Priority:", data.priority>>
            /\ hasSize => labels[atSize] = <<"Size:", data.size>>

\* Two categories, a priority and a size, before the issue is created.
C18_Witness ==
    /\ pc = "create"
    /\ CreationBranch = "issue"
    /\ Len(customer_types) = 2
    /\ data.priority # None
    /\ data.size # None
    /\ Len(labels) = 4

\* ----------------------------------------------------- the converter alone
\* _convert_notion_to_markdown applied to every sequence of at most MaxBlocks
\* blocks: blocks is the sequence, page_content the result.
Texts == {<<>>, <<" ">>, <<"a">>}

AllBlocks ==
    {Block(k, t, FALSE, <<>>, <<>>, <<>>, <<>>) : k \in TextKinds, t \in Texts}
    \cup {Block("to_do", <<"a">>, TRUE, <<>>, <<>>, <<>>, <<>>),
          Block("code", <<"a">>, FALSE, <<"python">>, <<>>, <<>>, <<>>),
          Block("callout", <<"a">>, FALSE, <<>>, <<":fire:">>, <<>>, <<>>),
          Block("divider", <<>>, FALSE, <<>>, <<>>, <<>>, <<>>),
          Block("table", <<>>, FALSE, <<>>, <<>>, <<>>, <<>>)}
    \cup {Block(k, <<>>, FALSE, <<>>, <<>>, u, c) :
            k \in {"image", "file", "video"},
            u \in {<<>>, <<"https://x/y">>}, c \in Texts}

ConvertInit ==
    /\ Init
    /\ config = [DRY_RUN |-> FALSE, GITHUB_PROJECT_ID |-> FALSE,
                 GITHUB_PROJECT_CREATE_DRAFT |-> FALSE,
                 GITHUB_PROJECT_STATUS_IDS |-> FALSE]
    /\ notion = [p \in Pages |-> [status |-> "Validated", in_sync |-> FALSE]]

convertRest == <<config, notion, mapping, dbReady, issues, drafts, cache,
                 results, idx, page_id, data, issue, project_item_id, hadRow,
                 log, exit, validation, customer_types, labels, field_ids,
                 cycle>>

\* The page gets one more block.
AddBlock ==
    /\ pc = "startup"
    /\ Len(blocks.results) < MaxBlocks
    /\ \E b \in AllBlocks :
        blocks' = [outcome |-> "ok", results |-> Append(blocks.results, b)]
    /\ UNCHANGED <<pc, page_content, convertRest>>

Convert ==
    /\ pc = "startup"
    /\ page_content' = _convert_notion_to_markdown(blocks.results)
    /\ pc' = "converted"
    /\ UNCHANGED <<blocks, convertRest>>

ConvertNext ==
    \/ AddBlock
    \/ Convert

SpecConvert == ConvertInit /\ [][ConvertNext]_vars

\* Every text run of the converted page, captions included, is empty or white
\* space only.
AllRunsBlank ==
    \A i \in DOMAIN blocks.results :
        Blank(blocks.results[i].text) /\ Blank(blocks.results[i].caption)

\* The kinds of block that emit a line whatever their text.
LineKinds == {"divider", "image", "file", "video"}

\* C19 as stated: for every block sequence, of any block kinds, in which every
\* text run (captions included) is empty or white space only, the converter
\* returns the empty string.
C19_BlankRunsConvertToEmpty ==
    (pc = "converted" /\ AllRunsBlank) => page_content = <<>>

\* C19, amended: for every block sequence in which every text run is empty or
\* white space only, the converter returns the empty string exactly when the
\* sequence holds no divider, image, file or video block: the blocks that
\* render rich text, and those of an unknown kind, emit nothing, while a
\* divider or a media block always emits its line.
C19_BlankTextBlocksConvertToEmpty ==
    (pc = "converted" /\ AllRunsBlank) =>
        (page_content = <<>> <=>
            \A i \in DOMAIN blocks.results : blocks.results[i].type \notin LineKinds)

\* A heading and a code block of white space were converted to nothing.
C19_Witness ==
    /\ pc = "converted"
    /\ Len(blocks.results) = 2
    /\ blocks.results[1].type = "heading_1"
    /\ blocks.results[1].text = <<" ">>
    /\ blocks.results[2].type = "code"
    /\ blocks.results[2].text = <<" ">>
    /\ page_content = <<>>

\* C20: init_db has completed before the first already_synced or record_mapping
\* call: the poll loop, the only caller of process_validated_page, leaves the
\* startup only with the mapping table created, so every run, and every store
\* call a run has made, finds the table.
C20_InitDbBeforeStoreUse ==
    /\ [](pc # "startup" => dbReady)
    /\ [](("already_synced" \in Ops \/ "record_mapping" \in Ops) => dbReady)
    /\ [][(pc = "startup" /\ pc' # "startup") => (dbReady' /\ pc' = "query")]_vars

\* The first run of a process called already_synced and record_mapping on the
\* table init_db created.
C20_Witness ==
    /\ dbReady
    /\ idx = 1
    /\ Logged("already_synced", "ok")
    /\ Logged("record_mapping", "ok")
    /\ Cardinality(mapping) = 1

\* C22: in every run the sync-flag write-back and the Backlog write-back are
\* attempted only if the run obtained a remote item: an issue returned by the
\* creation call, or a draft whose creation returned a project item id.
C22_WritebacksOnlyWithItem ==
    ("mark_synced" \in Ops \/ "set_status_to_backlog" \in Ops) =>
        (issue # <<>> \/ Logged("create_draft_item_in_project", "ok"))

\* The draft items created for page p.
DraftsFor(p) == {i \in DOMAIN drafts : drafts[i] = p}

\* C23: with dry-run off and the draft branch selected, at most one draft
\* project item is ever created per page, over any sequence of poll cycles.
C23_AtMostOneDraft ==
    (~DRY_RUN /\ DraftBranchSelected) =>
        \A p \in Pages : Cardinality(DraftsFor(p)) <= 1

\* C24: every row (id, n) of the mapping table stands for the issue numbered n,
\* really created for page id in a run with dry-run off: no row holds the
\* dry-run sentinel number, none exists under dry-run or for a draft item, and
\* none for a page whose creation call never succeeded.
C24_RowsAreRealIssues ==
    /\ \A r \in mapping :
          /\ r.github_issue_number # DryRunIssueNumber
          /\ r.github_issue_number \in DOMAIN issues
          /\ issues[r.github_issue_number] = r.notion_page_id
    /\ DRY_RUN => mapping = {}
    /\ DraftBranchSelected => mapping = {}
    /\ \A p \in Pages : IssuesFor(p) = {} => ~already_synced(p)

\* Both pages have their issue and their row; the first page got its issue in a
\* later run than the second.
C24_Witness ==
    /\ RunEnded
    /\ mapping = {[notion_page_id |-> "page-1", github_issue_number |-> 2],
                  [notion_page_id |-> "page-2", github_issue_number |-> 1]}

\* The three project field mutations.
FieldMutations == {"set_project_status", "set_priority", "set_size"}

\* C25: a project field mutation (Status, Priority, Size) is issued only with a
\* project item id the same run obtained before, from the draft creation or
\* from the link mutation; the link mutation is issued only with a project
\* configured, an issue with a node id created and no draft item id; and when
\* the link mutation raises or returns no item id the run issues none of the
\* three field mutations.
C25_FieldMutationsNeedItem ==
    /\ \A i \in DOMAIN log :
          log[i].op \in FieldMutations =>
              /\ project_item_id # None
              /\ GITHUB_PROJECT_ID
              /\ \E j \in 1 .. (i - 1) :
                    \/ log[j] = Call("create_draft_item_in_project", "ok")
                    \/ log[j] = Call("add_issue_to_project", "ok")
    /\ "add_issue_to_project" \in Ops =>
          /\ GITHUB_PROJECT_ID
          /\ issue # <<>>
          /\ issue[1].node_id
          /\ "create_draft_item_in_project" \notin Ops
    /\ (\E i \in DOMAIN log :
            log[i].op = "add_issue_to_project" /\ log[i].res # "ok") =>
          /\ Ops \cap FieldMutations = {}
          /\ project_item_id = None

\* The link mutation answered without an item id, and the run ended without a
\* field mutation although a status, a priority and a size were there to set.
C25_Witness ==
    /\ RunEnded
    /\ Logged("add_issue_to_project", "none")
    /\ GITHUB_PROJECT_STATUS_IDS
    /\ data.priority # None
    /\ data.size # None
    /\ Ops \cap FieldMutations = {}

\* C26: an exception that reaches the outer handler of poll_loop (raised by the
\* sleep between two cycles) ends the loop and nothing else: the process keeps
\* its memory and its tables, no query, run or sleep is started from then on
\* for as long as the process lives, and the health query is still answered.
C26_OuterHandlerStopsLoop ==
    /\ [](cycle = "raised" <=> pc = "stopped")
    /\ [](pc = "stopped" => ENABLED Health)
    /\ [][(pc = "sleep" /\ pc' \notin {"query", "startup", "sleep"}) =>
            /\ pc' = "stopped"
            /\ UNCHANGED <<world, dbReady, cache>>]_vars
    /\ [][(pc = "stopped" /\ pc' # "startup") =>
            /\ pc' = "stopped"
            /\ UNCHANGED <<world, dbReady, cache, results, idx, locals>>]_vars
    /\ [][pc' = "stopped" => pc \in {"sleep", "stopped"}]_vars

\* The loop stopped after a cycle that had created an issue, with the schema
\* cache of the process still filled.
C26_Witness ==
    /\ pc = "stopped"
    /\ issues # <<>>
    /\ cache.present

\* ------------------------------------------------------------- fair runs
\* A step of the process itself: of on_startup, of poll_loop or of a run.
ProgramStep ==
    \/ Startup \/ QueryOk \/ Dispatch \/ CycleEnd \/ Sleep
    \/ GetPageFields \/ AlreadySynced \/ GetPageContent
    \/ CreateDraftItem \/ CreateIssue \/ RecordMapping
    \/ MarkSynced \/ SetStatusToBacklog \/ AddIssueToProject
    \/ SetProjectStatus \/ SetProjectPriority \/ SetProjectSize

\* The runs of a process that is never killed, on pages no user edits.  The
\* event loop runs every task that can run, and a query that can succeed and a
\* sleep that can return do so again and again.
LiveNext ==
    \/ ProgramStep
    \/ QueryFail
    \/ SleepRaises

LiveSpec ==
    /\ Init
    /\ [][LiveNext]_vars
    /\ WF_vars(ProgramStep)
    /\ SF_vars(QueryOk)
    /\ SF_vars(Sleep)

\* No call of the current run has failed.
NoCallFailed == \A i \in DOMAIN log : log[i].res # "fail"

\* C21: when the poll loop keeps cycling with queries that succeed, from some
\* time on no call fails any more (the write-backs in particular fail only
\* finitely often), and a page keeps passing validation and reaching the
\* idempotency check, then once the page has a mapping row it eventually has
\* its sync flag set or a status other than Validated, that is, it is no
\* longer returned by the poll query.
C21_SyncFlagEventuallySet ==
    \A p \in Pages :
        ( /\ []<>(pc = "dispatch" /\ cycle = "ok")
          /\ <>[]NoCallFailed
          /\ []<>(pc = "check" /\ page_id = p) ) =>
            [](already_synced(p) => <>(~MatchesFilter(p)))
====
